---------------------------- MODULE Spec2Model ----------------------------
(***************************************************************************)
(* Verification model of the PDF extraction scripts.                       *)
(*                                                                         *)
(* Three components are modelled, each with its own specification:         *)
(*   Spec        the OpenAI-Vision batch pipeline and its CSV ledger       *)
(*               (extracoes/scripts/executaveis/extracao_openai_vision_v3) *)
(*   SpecHybrid  HybridExtractor.extract_text (src/extractors)             *)
(*   SpecValida  verificar_pdf_valido (extracao_dados_pdf_openai)          *)
(***************************************************************************)
EXTENDS Integers, Sequences, FiniteSets, TLC

(***************************************************************************)
(* Bounds of the model.                                                    *)
(***************************************************************************)
MaxRuns == 3
BatchPages == 1
MaxPages == 3
MaxConc == 2
MaxHPages == 1

Projects == {"p1"}
PdfNames == {"a.pdf", "b.pdf"}
Hashes == {"h1", "h2"}
\* the contents a file of each name can have: a.pdf comes in two versions,
\* b.pdf in one, which has the bytes of the first version of a.pdf
Contents(n) == IF n = "b.pdf" THEN {"h1"} ELSE Hashes
NoFile == "none"

VARIABLES
    ledger,       \* the CSV file at CSV_CTRL_PATH: [exists, lines]
    inbox,        \* PDF_BASE_PATH/<project>/<name>.pdf -> content hash or NoFile
    results,      \* {<<project, name>>} whose json_output file exists under RESULTS_BASE_PATH
    archive,      \* PDF_BASE_PATH/Processados/<project>: what earlier moves left there
    pc,           \* position of the main program
    run,          \* number of program runs started so far
    ctrl,         \* the dict returned by carrega_ctrl_csv at program start
    max_concurrent, \* max_concurrent of the running extract_text_openai_vision_async
    projQueue,    \* project_dirs still to be processed
    cur_project,  \* project_name of the running process_project
    pdfQueue,     \* pdf_files of the running process_project still to be visited
    cur_pdf,      \* filename_pdf being processed
    cur_hash,     \* hash_pdf of the file being processed
    phase_times,  \* StructuredLogger.phase_times: the active phases, in insertion order
    pages,        \* len(pages) of the PDF being extracted
    page_task,    \* state of process_with_semaphore(page_num) for each page
    txt_file,     \* content of txt_path of the PDF being processed
    done_order,   \* the pages in the order in which their requests completed
    outcome,      \* how extract_text_openai_vision ended: "none", "true", "false", "raised"
    appendLog,    \* the append_ctrl_csv calls made for the PDF being processed
    interrupted,  \* the (project, file, hash) whose processing a crash cut short and
                  \* that no later run has taken up yet
    resumed,      \* whether the PDF being processed is one a crash had interrupted
    h_pc,         \* HybridExtractor: "new" before __init__, "ready" after
    h_config,     \* HybridExtractor.config, the dict given to __init__
    h_attrs,      \* the attributes _setup_extractor set from the config
    last_direct_result, \* HybridExtractor._last_direct_result (NoResult: attribute not set)
    last_ocr_result,    \* HybridExtractor._last_ocr_result (NoResult: attribute not set)
    h_path,       \* pdf_path of the last extract_text call
    h_direct,     \* direct_result of the last extract_text call (NoResult: not attempted)
    h_ocr,        \* ocr_result of the last extract_text call (NoResult: not attempted)
    h_result,     \* what the last extract_text call returned
    v_pc,         \* verificar_pdf_valido: "idle", "attempt" (in the loop), "returned"
    v_path,       \* pdf_path of the verificar_pdf_valido call
    tentativa,    \* loop variable of verificar_pdf_valido
    v_attempts,   \* how each attempt of the call ended
    v_sleeps,     \* the time.sleep calls of the call: [tentativa, tenths of a second]
    v_return,     \* the tuple the call returned
    g_pc,         \* gerar_csv_arquivos_pdfs: "idle", "loop" (in the while loop), "done"
    g_arquivos,   \* arquivos_pdfs of the call
    g_registros,  \* registros_unicos
    g_csv,        \* the file path_csv: [exists, rows]
    g_temp,       \* the fallback file under Path.home()/Documents: [exists, rows]
    g_tentativas, \* tentativas
    g_attempts,   \* how each open(path_csv, "w") of the call ended
    g_result,     \* how the call ended: "none", "returned", "raised"
    par_ledger,   \* v4, projects in parallel threads: the CSV file at CSV_CTRL_PATH
    par_pc,       \* thread -> position inside append_ctrl_csv
    par_existe,   \* thread -> its local existe
    par_status,   \* thread -> status argument of its call in progress
    par_calls,    \* thread -> number of calls it has finished
    f_extractors, \* ExtractorFactory._extractors: registered types in registration order
    f_instances,  \* ExtractorFactory._instances: cache key -> instance
    f_created,    \* number of extractor objects constructed so far
    f_made,       \* cache key -> instances get_extractor created since the last clear_cache
    f_handed,     \* cache key -> instances get_extractor returned since the last clear_cache
    f_last,       \* the last call on the main thread and what it returned or raised
    w_pc,         \* worker thread -> position inside get_extractor
    w_key,        \* worker thread -> its cache_key
    w_inst,       \* worker thread -> the instance its create_extractor returned
    a_pc,         \* process_files: "idle", "next", "batch", "stats", "returned", "raised"
    a_files,      \* len(pdf_files); the files are 1..a_files in input order
    a_batch_size, \* self.batch_size
    a_max_workers, \* self.max_workers
    a_start,      \* i of the loop of process_files: files before the current batch
    a_task,       \* file -> "pending", "queued", "running", "done"
    a_out,        \* file -> how _process_single_file ended
    a_done_order, \* the files in the order in which their threads finished
    a_batch,      \* processed_results of the current batch
    a_counted,    \* results of the current batch that went through _update_stats
    a_results,    \* results of process_files
    a_stats,      \* self.stats
    a_cb_raised,  \* exceptions file_processed_callback raised in this call
    l_ledger,     \* the CSV file at csv_path, written by a sequence of calls
    l_op,         \* the last call: "none", "append", "popular"
    l_last,       \* the record of the last append_ctrl_csv call
    l_wrote       \* whether the last call changed the file

ledgerVars == <<ledger, inbox, results, archive>>
mainVars == <<pc, run, ctrl, max_concurrent, projQueue, cur_project, pdfQueue, cur_pdf, cur_hash>>
extractVars == <<phase_times, pages, page_task, done_order, txt_file, outcome, appendLog>>

extractVarsRest == <<pages, page_task, done_order, txt_file, outcome, appendLog>>

pipelineVars == <<ledgerVars, mainVars, extractVars, interrupted, resumed>>
hybridVars == <<h_pc, h_config, h_attrs, last_direct_result, last_ocr_result, h_path, h_direct, h_ocr, h_result>>
validaVars == <<v_pc, v_path, tentativa, v_attempts, v_sleeps, v_return>>

csvVars == <<g_pc, g_arquivos, g_registros, g_csv, g_temp, g_tentativas, g_attempts, g_result>>

parVars == <<par_ledger, par_pc, par_existe, par_status, par_calls>>
factoryVars == <<f_extractors, f_instances, f_created, f_made, f_handed, f_last, w_pc, w_key, w_inst>>
asyncVars == <<a_pc, a_files, a_batch_size, a_max_workers, a_start, a_task, a_out, a_done_order, a_batch, a_counted, a_results, a_stats, a_cb_raised>>
callsVars == <<l_ledger, l_op, l_last, l_wrote>>
nonCallsVars == <<pipelineVars, hybridVars, validaVars, csvVars, parVars, factoryVars, asyncVars>>

nonAsyncVars == <<pipelineVars, hybridVars, validaVars, csvVars, parVars, factoryVars, callsVars>>

nonFactoryVars == <<pipelineVars, hybridVars, validaVars, csvVars, parVars, asyncVars, callsVars>>

nonParVars == <<pipelineVars, hybridVars, validaVars, csvVars, factoryVars, asyncVars, callsVars>>

nonPipelineVars == <<hybridVars, validaVars, csvVars, parVars, factoryVars, asyncVars, callsVars>>
nonHybridVars == <<pipelineVars, validaVars, csvVars, parVars, factoryVars, asyncVars, callsVars>>
nonValidaVars == <<pipelineVars, hybridVars, csvVars, parVars, factoryVars, asyncVars, callsVars>>
nonCsvVars == <<pipelineVars, hybridVars, validaVars, parVars, factoryVars, asyncVars, callsVars>>

vars == <<pipelineVars, hybridVars, validaVars, csvVars, parVars, factoryVars, asyncVars, callsVars>>

(***************************************************************************)
(* The ledger file.  A line is a six-field record; the header line holds   *)
(* the column names.                                                       *)
(***************************************************************************)
HeaderLine ==
    [projeto |-> "projeto", arquivo_pdf |-> "arquivo_pdf", hash_pdf |-> "hash_pdf",
     data_processamento |-> "data_processamento", status |-> "status",
     output_path |-> "output_path"]

NoRow ==
    [projeto |-> "", arquivo_pdf |-> "", hash_pdf |-> "",
     data_processamento |-> "", status |-> "", output_path |-> ""]

\* datetime.now().isoformat(): no code reads the column back, one value stands for all
Now == "2025-01-01T00:00:00"

\* f"{pdf_dir}/openai_vision_{filename}.json" with pdf_dir = RESULTS_BASE_PATH/project/filename
JsonOutput(p, n) ==
    CASE n = "a.pdf" -> "results/p1/a/openai_vision_a.json"
      [] n = "b.pdf" -> "results/p1/b/openai_vision_b.json"

\* csv.DictReader: the first line names the fields, the others are the rows
DictReader(file) ==
    IF file.exists /\ Len(file.lines) > 0 THEN Tail(file.lines) ELSE <<>>

RowKey(row) == <<row.projeto, row.arquivo_pdf, row.hash_pdf>>
RecordKey(row) == <<row.projeto, row.arquivo_pdf, row.hash_pdf, row.status, row.output_path>>

Keys == Projects \X PdfNames \X Hashes

\* the last index of rows whose key is k (0 when there is none)
LastIndex(rows, k) ==
    LET hits == {i \in 1..Len(rows) : RowKey(rows[i]) = k}
    IN IF hits = {} THEN 0 ELSE CHOOSE i \in hits : \A j \in hits : j <= i

\* carrega_ctrl_csv: a dict comprehension, so a later row replaces an earlier one
carrega_ctrl_csv(file) ==
    LET rows == DictReader(file)
    IN [k \in Keys |-> IF LastIndex(rows, k) = 0 THEN NoRow ELSE rows[LastIndex(rows, k)]]

\* append_ctrl_csv without its test for an identical record
append_ctrl_csv_always(file, projeto, arquivo_pdf, hash_pdf, status, output_path, now) ==
    [exists |-> TRUE,
     lines |-> (IF file.exists THEN file.lines ELSE <<HeaderLine>>)
                   \o <<[projeto |-> projeto, arquivo_pdf |-> arquivo_pdf,
                         hash_pdf |-> hash_pdf, data_processamento |-> now,
                         status |-> status, output_path |-> output_path]>>]

\* append_ctrl_csv: nothing is written when an identical record is present
append_ctrl_csv(file, projeto, arquivo_pdf, hash_pdf, status, output_path, now) ==
    LET existe == file.exists
        rows == DictReader(file)
        registros == {RecordKey(rows[i]) : i \in 1..Len(rows)}
        chave == <<projeto, arquivo_pdf, hash_pdf, status, output_path>>
        linha == [projeto |-> projeto, arquivo_pdf |-> arquivo_pdf, hash_pdf |-> hash_pdf,
                  data_processamento |-> now, status |-> status, output_path |-> output_path]
    IN IF chave \in registros
       THEN file
       ELSE [exists |-> TRUE,
             lines |-> (IF existe THEN file.lines ELSE <<HeaderLine>>) \o <<linha>>]


(***************************************************************************)
(* StructuredLogger phases.  phase_times is a dict: a sequence of distinct *)
(* phase names in insertion order.                                         *)
(***************************************************************************)
InPhases(pt, phase_name) == \E i \in 1..Len(pt) : pt[i] = phase_name

end_phase(pt, phase_name) ==
    IF ~InPhases(pt, phase_name) THEN pt
    ELSE SelectSeq(pt, LAMBDA x : x # phase_name)

start_phase(pt, phase_name) ==
    Append(end_phase(pt, phase_name), phase_name)

(***************************************************************************)
(* extract_text_openai_vision_async, as process_project calls it (with a   *)
(* logger).                                                                *)
(***************************************************************************)
Waiting == "waiting"
InFlight == "in_flight"
Replies == {"text", "blank", "erro"}

ErroMarker == "[ERRO NA API OPENAI: e]"
BlankMarker == "[PAGINA EM BRANCO OU SEM TEXTO DETECTADO]"
NoTxt == <<>>
NoKeyTxt == <<[page |-> 0, body |-> "OPENAI_API_KEY nao configurada"]>>
HandlerTxt == <<[page |-> 0, body |-> "ERRO NA OPENAI VISION API ASSINCRONA"]>>

\* a page task that returns no text, instead of the marker, when the API fails
process_page_async_no_marker(page_num, reply) ==
    IF reply = "text" THEN <<page_num, "page text">> ELSE <<page_num, "">>

\* process_page_async: what it returns for the reply the API gave
process_page_async(page_num, reply) ==
    IF reply = "erro" THEN <<page_num, ErroMarker>>
    ELSE IF reply = "blank" THEN <<page_num, "">>
    ELSE <<page_num, "page text">>

\* the number of page requests holding the semaphore
InFlightCount(tasks) == Cardinality({i \in DOMAIN tasks : tasks[i] = InFlight})

\* asyncio.Semaphore wakes its waiters first-in first-out, and gather starts
\* the tasks in page order: the next task to enter is the lowest waiting page
NextWaiting(tasks) ==
    LET w == {i \in DOMAIN tasks : tasks[i] = Waiting}
    IN IF w = {} THEN 0 ELSE CHOOSE i \in w : \A j \in w : i <= j

\* a semaphore that never makes a task wait
SemaphoreFree_unbounded(tasks, permits) == TRUE

\* `async with semaphore`: a task enters only while a permit is left
SemaphoreFree(tasks, permits) == InFlightCount(tasks) < permits

\* asyncio.gather returns the results in the order of the tasks
GatherResults(tasks) == [i \in DOMAIN tasks |-> process_page_async(i, tasks[i])]

\* a sort that puts the highest page first
SortByPage_descending(rs) == [i \in 1..Len(rs) |-> rs[Len(rs) + 1 - i]]

\* results.sort(key=lambda x: x[0]) (insertion into an ascending list)
RECURSIVE SortByPage(_)
InsertByPage(r, sorted) ==
    LET before == SelectSeq(sorted, LAMBDA x : x[1] <= r[1])
        after == SelectSeq(sorted, LAMBDA x : x[1] > r[1])
    IN before \o <<r>> \o after
SortByPage(rs) ==
    IF rs = <<>> THEN <<>> ELSE InsertByPage(rs[Len(rs)], SortByPage(SubSeq(rs, 1, Len(rs) - 1)))

\* one "=== PAGINA N ===" section of extracted_text
Section(r) ==
    [page |-> r[1], body |-> IF r[2] = "" THEN BlankMarker ELSE r[2]]

\* the loop over the sorted results that builds extracted_text
Sections(rs) == [i \in 1..Len(rs) |-> Section(rs[i])]

\* the `except Exception` handler of extract_text_openai_vision_async: it
\* iterates logger.phase_times.keys() while end_phase deletes from the dict,
\* so with an active phase the first one is ended and the loop then raises
\* RuntimeError; with none it rewrites txt_path and returns False
ExceptHandler(pt, txt) ==
    IF pt = <<>>
    THEN [phase_times |-> pt, txt |-> HandlerTxt, outcome |-> "false"]
    ELSE [phase_times |-> end_phase(pt, pt[1]), txt |-> txt, outcome |-> "raised"]


(***************************************************************************)
(* HybridExtractor (src/extractors/hybrid_extractor.py) with the direct    *)
(* and the OCR extractor it calls.  A text is a sequence of characters:    *)
(* "x" a letter, " " and "\n" white space, "=" the "=== PÁGINA n ==="      *)
(* header line of a page.                                                  *)
(***************************************************************************)
WhiteSpace == {" ", "\n"}
PageTexts == {<<" ">>, <<"x">>, <<"x", "x">>}
\* the texts of the pages of a PDF of k pages
PagesOf(k) == [1..k -> PageTexts]
HybridPaths == {"f1.pdf", "f2.pdf"}

\* str.strip()
RECURSIVE LStrip(_)
LStrip(t) == IF t # <<>> /\ Head(t) \in WhiteSpace THEN LStrip(Tail(t)) ELSE t
RECURSIVE RStrip(_)
RStrip(t) ==
    IF t # <<>> /\ t[Len(t)] \in WhiteSpace THEN RStrip(SubSeq(t, 1, Len(t) - 1)) ELSE t
Strip(t) == RStrip(LStrip(t))

\* "\n".join(text_content)
RECURSIVE Join(_)
Join(chunks) ==
    IF chunks = <<>> THEN <<>>
    ELSE IF Len(chunks) = 1 THEN chunks[1]
    ELSE chunks[1] \o <<"\n">> \o Join(Tail(chunks))

\* f"=== PÁGINA {page_num} ===\n{text}\n"
PageChunk(text) == <<"=", "\n">> \o text \o <<"\n">>

\* the pages that `if text and text.strip()` lets through
TextPages(page_texts) == SelectSeq(page_texts, LAMBDA t : Strip(t) # <<>>)

NoResult ==
    [file_path |-> "", success |-> FALSE, text_content |-> <<>>, pages_processed |-> 0,
     extraction_method |-> "unset"]

FailureResult(pdf_path, method) ==
    [file_path |-> pdf_path, success |-> FALSE, text_content |-> <<>>, pages_processed |-> 0,
     extraction_method |-> method]

\* what _extract_with_pdfplumber, _extract_with_pypdf2 and _extract_with_ocr
\* build from the texts of the pages
PagesResult(pdf_path, page_texts, method) ==
    LET kept == TextPages(page_texts)
        text_content == [i \in 1..Len(kept) |-> PageChunk(kept[i])]
        success == Len(text_content) > 0
    IN [file_path |-> pdf_path, success |-> success,
        text_content |-> IF success THEN Join(text_content) ELSE <<>>,
        pages_processed |-> Len(kept), extraction_method |-> method]

\* DirectExtractor.extract_text: pdfplumber, then PyPDF2 (which reads the
\* same text layer), then the failure result
DirectExtractor_extract_text(pdf_path, valid, native) ==
    LET plumber == PagesResult(pdf_path, native, "pdfplumber")
        pypdf2 == PagesResult(pdf_path, native, "PyPDF2")
    IN IF ~valid THEN FailureResult(pdf_path, "Direct PDF Text Extractor")
       ELSE IF plumber.success /\ Strip(plumber.text_content) # <<>> THEN plumber
       ELSE IF pypdf2.success THEN pypdf2
       ELSE FailureResult(pdf_path, "Direct PDF Text Extractor")

\* OCRExtractor.extract_text; the instance the factory keeps was set up with
\* an empty config, so that max_pages is None
OCRExtractor_extract_text(pdf_path, valid, scanned) ==
    IF ~valid THEN FailureResult(pdf_path, "OCR PDF Text Extractor")
    ELSE PagesResult(pdf_path, scanned, "Tesseract OCR")

\* a config dict: each key is absent ({}) or has one value
DefaultMinTextLength == 50
MinTextLengths == {1, 4}
HybridConfigs ==
    [min_text_length : {{}} \cup {{n} : n \in MinTextLengths},
     prefer_direct : {{}, {FALSE}},
     ocr_fallback : {{}, {FALSE}}]
NoConfig == [min_text_length |-> {}, prefer_direct |-> {}, ocr_fallback |-> {}]

\* dict.get(key, default)
ConfigGet(entry, default) == IF entry = {} THEN default ELSE CHOOSE v \in entry : TRUE

\* a setup that turns the fallback off unless the config asks for it
setup_extractor_no_fallback(config) ==
    [min_text_threshold |-> ConfigGet(config.min_text_length, DefaultMinTextLength),
     prefer_direct |-> ConfigGet(config.prefer_direct, TRUE),
     ocr_fallback |-> ConfigGet(config.ocr_fallback, FALSE)]

setup_extractor(config) ==
    [min_text_threshold |-> ConfigGet(config.min_text_length, DefaultMinTextLength),
     prefer_direct |-> ConfigGet(config.prefer_direct, TRUE),
     ocr_fallback |-> ConfigGet(config.ocr_fallback, TRUE)]

\* a success test that wants more text than the threshold
is_extraction_successful_above(result, min_text_threshold) ==
    /\ result.success
    /\ Len(Strip(result.text_content)) > min_text_threshold
    /\ result.pages_processed # 0

is_extraction_successful(result, min_text_threshold) ==
    /\ result.success
    /\ ~(Len(Strip(result.text_content)) < min_text_threshold)
    /\ result.pages_processed # 0

WithMethod(result, method) == [result EXCEPT !.extraction_method = method]

\* _try_direct_extraction and _try_ocr_extraction: the extractor's result, or
\* the error result when getting or running the extractor raises
try_direct_extraction(pdf_path, native, raises) ==
    IF raises THEN FailureResult(pdf_path, "Direct (Error)")
    ELSE DirectExtractor_extract_text(pdf_path, TRUE, native)

try_ocr_extraction(pdf_path, scanned, raises) ==
    IF raises THEN FailureResult(pdf_path, "OCR (Error)")
    ELSE OCRExtractor_extract_text(pdf_path, TRUE, scanned)

InitHybrid ==
    /\ h_pc = "new"
    /\ h_config = NoConfig
    /\ h_attrs = setup_extractor(NoConfig)
    /\ last_direct_result = NoResult
    /\ last_ocr_result = NoResult
    /\ h_path = ""
    /\ h_direct = NoResult
    /\ h_ocr = NoResult
    /\ h_result = NoResult

\* HybridExtractor(config)
HybridExtractor_init(config) ==
    /\ h_pc = "new"
    /\ h_pc' = "ready"
    /\ h_config' = config
    /\ h_attrs' = setup_extractor(config)
    /\ UNCHANGED <<last_direct_result, last_ocr_result, h_path, h_direct, h_ocr, h_result>>
    /\ UNCHANGED nonHybridVars

\* HybridExtractor.extract_text(pdf_path).  A result object that is returned
\* is the one the _last_*_result attribute holds, so that the change of its
\* extraction_method shows in both.
extract_text(pdf_path, valid, native, scanned, direct_raises, ocr_raises) ==
    LET direct_result == try_direct_extraction(pdf_path, native, direct_raises)
        direct_ok == /\ h_attrs.prefer_direct
                     /\ is_extraction_successful(direct_result, h_attrs.min_text_threshold)
        lastD == IF h_attrs.prefer_direct /\ ~direct_raises THEN direct_result
                 ELSE last_direct_result
        ocr_tried == ~direct_ok /\ h_attrs.ocr_fallback
        ocr_result == try_ocr_extraction(pdf_path, scanned, ocr_raises)
        ocr_ok == ocr_tried /\ is_extraction_successful(ocr_result, h_attrs.min_text_threshold)
        lastO == IF ocr_tried /\ ~ocr_raises THEN ocr_result ELSE last_ocr_result
    IN /\ h_pc = "ready"
       /\ h_path' = pdf_path
       /\ IF ~valid
          THEN /\ h_result' = FailureResult(pdf_path, "Hybrid PDF Text Extractor")
               /\ h_direct' = NoResult
               /\ h_ocr' = NoResult
               /\ UNCHANGED <<last_direct_result, last_ocr_result>>
          ELSE /\ h_direct' = IF h_attrs.prefer_direct THEN direct_result ELSE NoResult
               /\ h_ocr' = IF ocr_tried THEN ocr_result ELSE NoResult
               /\ IF direct_ok
                  THEN /\ h_result' = WithMethod(direct_result, "Hybrid PDF Text Extractor (Direct)")
                       /\ last_direct_result' = h_result'
                       /\ last_ocr_result' = lastO
                  ELSE IF ocr_ok
                  THEN /\ h_result' = WithMethod(ocr_result, "Hybrid PDF Text Extractor (OCR)")
                       /\ last_direct_result' = lastD
                       /\ last_ocr_result' = h_result'
                  ELSE IF h_attrs.prefer_direct /\ lastD # NoResult
                  THEN /\ h_result' = WithMethod(lastD, "Hybrid PDF Text Extractor (Direct - Partial)")
                       /\ last_direct_result' = h_result'
                       /\ last_ocr_result' = lastO
                  ELSE IF lastO # NoResult
                  THEN /\ h_result' = WithMethod(lastO, "Hybrid PDF Text Extractor (OCR - Partial)")
                       /\ last_direct_result' = lastD
                       /\ last_ocr_result' = h_result'
                  ELSE /\ h_result' = FailureResult(pdf_path, "Hybrid PDF Text Extractor")
                       /\ last_direct_result' = lastD
                       /\ last_ocr_result' = lastO
       /\ UNCHANGED <<h_pc, h_config, h_attrs>>
       /\ UNCHANGED nonHybridVars

NextHybrid ==
    \/ \E config \in HybridConfigs : HybridExtractor_init(config)
    \* the PDF is not valid
    \/ \E pdf_path \in HybridPaths :
            extract_text(pdf_path, FALSE, <<>>, <<>>, FALSE, FALSE)
    \* a PDF of k pages, with the text each extractor reads from a page
    \/ \E pdf_path \in HybridPaths, k \in 1..MaxHPages :
         \E native \in PagesOf(k), scanned \in PagesOf(k) :
            extract_text(pdf_path, TRUE, native, scanned, FALSE, FALSE)
    \* the direct extractor raises, the OCR extractor reads the pages
    \/ \E pdf_path \in HybridPaths, k \in 1..MaxHPages :
         \E scanned \in PagesOf(k) :
            extract_text(pdf_path, TRUE, <<>>, scanned, TRUE, FALSE)
    \* the OCR extractor raises
    \/ \E pdf_path \in HybridPaths, k \in 1..MaxHPages :
         \E native \in PagesOf(k) :
            extract_text(pdf_path, TRUE, native, <<>>, FALSE, TRUE)
    \* both raise
    \/ \E pdf_path \in HybridPaths :
            extract_text(pdf_path, TRUE, <<>>, <<>>, TRUE, TRUE)

(***************************************************************************)
(* verificar_pdf_valido (extracao_dados_pdf_openai.py).  Times are in      *)
(* tenths of a second.  Leaving the TemporaryDirectory is taken not to     *)
(* raise.                                                                  *)
(***************************************************************************)
max_tentativas == 3
ReleaseDelay == 2

\* how one pass of the loop body can end
EarlyOutcomes == {"not_found", "empty", "small"}
ConvertOutcomes == {"pages", "no_pages", "inner_lock", "inner_corrupt", "inner_other"}
OuterOutcomes == {"outer_lock", "outer_other"}
AttemptOutcomes == EarlyOutcomes \cup ConvertOutcomes \cup OuterOutcomes

\* 'winerror 32' in error_msg or 'sendo usado por outro processo' in error_msg
IsLockError(o) == o \in {"inner_lock", "outer_lock"}

\* a delay that does not grow with the attempt
Backoff_constant(t) == 10

\* time.sleep(1.0 * tentativa)
Backoff(t) == 10 * t

\* whether the pass ends in `continue`
Continues(t, o) == IsLockError(o) /\ t < max_tentativas

\* the time.sleep calls of the pass, the one of `finally` last
SleepsOf(t, o) ==
    (IF o = "pages" THEN <<ReleaseDelay>> ELSE <<>>)
    \o (IF Continues(t, o) THEN <<Backoff(t)>> ELSE <<>>)
    \o (IF o \in ConvertOutcomes THEN <<ReleaseDelay>> ELSE <<>>)

\* the tuple the pass returns when it does not end in `continue`
ReturnOf(t, o) ==
    CASE o = "not_found" -> [ok |-> FALSE, msg |-> "Arquivo nao encontrado"]
      [] o = "empty" -> [ok |-> FALSE, msg |-> "Arquivo vazio"]
      [] o = "small" -> [ok |-> FALSE, msg |-> "Arquivo muito pequeno"]
      [] o = "pages" -> [ok |-> TRUE, msg |-> "PDF valido"]
      [] o = "no_pages" -> [ok |-> FALSE, msg |-> "PDF sem paginas validas"]
      [] o = "inner_lock" -> [ok |-> FALSE, msg |-> "Arquivo em uso apos 3 tentativas"]
      [] o = "inner_corrupt" -> [ok |-> FALSE, msg |-> "PDF corrompido"]
      [] o = "inner_other" -> [ok |-> FALSE, msg |-> "Erro ao processar PDF"]
      [] o = "outer_lock" -> [ok |-> FALSE, msg |-> "Erro persistente apos 3 tentativas"]
      [] o = "outer_other" -> [ok |-> FALSE, msg |-> "Erro na validacao"]

NoReturn == [ok |-> FALSE, msg |-> ""]

InitValida ==
    /\ v_pc = "idle"
    /\ v_path = ""
    /\ tentativa = 0
    /\ v_attempts = <<>>
    /\ v_sleeps = <<>>
    /\ v_return = NoReturn

\* verificar_pdf_valido(pdf_path) is called
verificar_pdf_valido(pdf_path) ==
    /\ v_pc \in {"idle", "returned"}
    /\ v_pc' = "attempt"
    /\ v_path' = pdf_path
    /\ tentativa' = 1
    /\ v_attempts' = <<>>
    /\ v_sleeps' = <<>>
    /\ v_return' = NoReturn
    /\ UNCHANGED nonValidaVars

\* one pass of `for tentativa in range(1, max_tentativas + 1)`
Tentativa(o) ==
    /\ v_pc = "attempt"
    /\ v_attempts' = Append(v_attempts, o)
    /\ v_sleeps' = v_sleeps \o [i \in 1..Len(SleepsOf(tentativa, o)) |->
                                  [tentativa |-> tentativa, tenths |-> SleepsOf(tentativa, o)[i]]]
    /\ IF Continues(tentativa, o)
       THEN /\ tentativa' = tentativa + 1
            /\ UNCHANGED <<v_pc, v_return>>
       ELSE /\ v_return' = ReturnOf(tentativa, o)
            /\ v_pc' = "returned"
            /\ UNCHANGED tentativa
    /\ UNCHANGED v_path
    /\ UNCHANGED nonValidaVars

NextValida ==
    \/ \E pdf_path \in PdfNames : verificar_pdf_valido(pdf_path)
    \/ \E o \in AttemptOutcomes : Tentativa(o)

(***************************************************************************)
(* gerar_csv_arquivos_pdfs (extracao_dados_pdf_openai.py).  A record is    *)
(* stood for by the name of its file.                                      *)
(***************************************************************************)
max_tentativas_csv == 3

CsvNames == {"a.pdf", "b.pdf", "print - contabilizacao.pdf"}
OldNames == {"a.pdf", "old.pdf"}
NoCsvFile == [exists |-> FALSE, rows |-> {}]

\* registros_novos: the files whose name holds "print - contabilização.pdf" are left out
registros_novos(arquivos_pdfs) == arquivos_pdfs \ {"print - contabilizacao.pdf"}

\* registros_existentes: the rows of path_csv, none when it cannot be read
registros_existentes(file, read_fails) ==
    IF file.exists /\ ~read_fails THEN file.rows ELSE {}

\* what an attempt that raised does next; an error that always asks for another try
AfterError_always_retry(kind, tentativas) == "retry"

\* what an attempt that raised does next
AfterError(kind, tentativas) ==
    IF kind = "perm"
    THEN IF tentativas < max_tentativas_csv THEN "retry" ELSE "fallback"
    ELSE IF tentativas >= max_tentativas_csv THEN "raise" ELSE "retry"

\* while not csv_escrito and tentativas < max_tentativas
LoopGoesOn(csv_escrito, tentativas) == ~csv_escrito /\ tentativas < max_tentativas_csv

InitCsv ==
    /\ g_pc = "idle"
    /\ g_arquivos = {}
    /\ g_registros = {}
    /\ g_csv = NoCsvFile
    /\ g_temp = NoCsvFile
    /\ g_tentativas = 0
    /\ g_attempts = <<>>
    /\ g_result = "none"

\* between two calls another program leaves a CSV at path_csv
PutCsv(rows) ==
    /\ g_pc \in {"idle", "done"}
    /\ g_csv # [exists |-> TRUE, rows |-> rows]
    /\ g_csv' = [exists |-> TRUE, rows |-> rows]
    /\ g_pc' = "idle"
    /\ g_result' = "none"
    /\ g_arquivos' = {}
    /\ g_registros' = {}
    /\ g_tentativas' = 0
    /\ g_attempts' = <<>>
    /\ UNCHANGED g_temp
    /\ UNCHANGED nonCsvVars

\* the call, up to the while loop
gerar_csv_arquivos_pdfs(arquivos_pdfs, em_uso, read_fails) ==
    /\ g_pc \in {"idle", "done"}
    /\ em_uso => g_csv.exists
    /\ g_arquivos' = arquivos_pdfs
    /\ g_temp' = NoCsvFile
    /\ g_tentativas' = 0
    /\ g_attempts' = <<>>
    /\ IF arquivos_pdfs = {}
       THEN /\ g_pc' = "done"
            /\ g_result' = "returned"
            /\ g_registros' = {}
       ELSE IF em_uso
       THEN /\ g_pc' = "done"
            /\ g_result' = "raised"
            /\ g_registros' = {}
       ELSE /\ g_pc' = "loop"
            /\ g_result' = "none"
            /\ g_registros' = registros_existentes(g_csv, read_fails)
                                  \cup registros_novos(arquivos_pdfs)
    /\ UNCHANGED g_csv
    /\ UNCHANGED nonCsvVars

\* one pass of the while loop: open(path_csv, "w") succeeds, raises
\* PermissionError ("perm") or raises another error ("other", which may
\* leave the file truncated); temp_ok tells whether the fallback file can be
\* written
EscreverCsv(kind, truncated, temp_ok) ==
    LET t == g_tentativas + 1
        next == AfterError(kind, t)
    IN /\ g_pc = "loop"
       /\ g_tentativas' = t
       /\ g_attempts' = Append(g_attempts, kind)
       /\ IF kind = "ok"
          THEN /\ g_csv' = [exists |-> TRUE, rows |-> g_registros]
               /\ g_pc' = "done"
               /\ g_result' = "returned"
               /\ UNCHANGED g_temp
          ELSE /\ g_csv' = IF kind = "other" /\ truncated
                           THEN [exists |-> TRUE, rows |-> {}] ELSE g_csv
               /\ IF next = "fallback"
                  THEN /\ g_temp' = IF temp_ok THEN [exists |-> TRUE, rows |-> g_registros]
                                    ELSE g_temp
                       /\ g_pc' = "done"
                       /\ g_result' = IF temp_ok THEN "returned" ELSE "raised"
                  ELSE IF next = "raise"
                  THEN /\ g_pc' = "done"
                       /\ g_result' = "raised"
                       /\ UNCHANGED g_temp
                  ELSE /\ g_pc' = IF LoopGoesOn(FALSE, t) THEN "loop" ELSE "done"
                       /\ g_result' = IF LoopGoesOn(FALSE, t) THEN "none" ELSE "returned"
                       /\ UNCHANGED g_temp
       /\ UNCHANGED <<g_arquivos, g_registros>>
       /\ UNCHANGED nonCsvVars

NextCsv ==
    \/ \E rows \in SUBSET OldNames : PutCsv(rows)
    \/ \E arquivos_pdfs \in SUBSET CsvNames, em_uso \in BOOLEAN, read_fails \in BOOLEAN :
          gerar_csv_arquivos_pdfs(arquivos_pdfs, em_uso, read_fails)
    \/ \E kind \in {"ok", "perm", "other"}, truncated \in BOOLEAN, temp_ok \in BOOLEAN :
          EscreverCsv(kind, truncated, temp_ok)

(***************************************************************************)
(* append_ctrl_csv called by the threads of the ThreadPoolExecutor of       *)
(* extracao_openai_vision_v4.py, one thread per project, without a lock.   *)
(***************************************************************************)
MaxAppends == 2

ParProjects == {"p1", "p2"}
ParStatuses == {"processing", "success", "error"}
NoLedger == [exists |-> FALSE, lines |-> <<>>]

\* json_output of the PDF a.pdf of a project
ParOutput(projeto) ==
    IF projeto = "p1" THEN "results/p1/a/openai_vision_a.json"
    ELSE "results/p2/a/openai_vision_a.json"

ParRow(projeto, status) ==
    [projeto |-> projeto, arquivo_pdf |-> "a.pdf", hash_pdf |-> "h1",
     data_processamento |-> Now, status |-> status,
     output_path |-> ParOutput(projeto)]

InitPar ==
    /\ par_ledger = NoLedger
    /\ par_pc = [t \in ParProjects |-> "idle"]
    /\ par_existe = [t \in ParProjects |-> FALSE]
    /\ par_status = [t \in ParProjects |-> ""]
    /\ par_calls = [t \in ParProjects |-> 0]

\* lines 185-197: the records of the file are read and the call returns
\* when its record is among them
par_read(t, status) ==
    LET rows == DictReader(par_ledger)
        registros == {RecordKey(rows[i]) : i \in 1..Len(rows)}
        reg_key == RecordKey(ParRow(t, status))
    IN /\ par_pc[t] = "idle"
       /\ par_calls[t] < MaxAppends
       /\ par_status' = [par_status EXCEPT ![t] = status]
       /\ IF reg_key \in registros
          THEN /\ par_pc' = [par_pc EXCEPT ![t] = "idle"]
               /\ par_calls' = [par_calls EXCEPT ![t] = @ + 1]
          ELSE /\ par_pc' = [par_pc EXCEPT ![t] = "read"]
               /\ UNCHANGED par_calls
       /\ UNCHANGED <<par_ledger, par_existe>>
       /\ UNCHANGED nonParVars

\* line 199: existe = os.path.exists(path)
par_exists(t) ==
    /\ par_pc[t] = "read"
    /\ par_existe' = [par_existe EXCEPT ![t] = par_ledger.exists]
    /\ par_pc' = [par_pc EXCEPT ![t] = "checked"]
    /\ UNCHANGED <<par_ledger, par_status, par_calls>>
    /\ UNCHANGED nonParVars

\* lines 200-211: the file is opened for appending; the header, when existe
\* is false, and the row reach the file together when it is closed
par_write(t) ==
    LET head == IF par_existe[t] THEN <<>> ELSE <<HeaderLine>>
    IN /\ par_pc[t] = "checked"
       /\ par_ledger' = [exists |-> TRUE,
                         lines |-> par_ledger.lines \o head \o <<ParRow(t, par_status[t])>>]
       /\ par_pc' = [par_pc EXCEPT ![t] = "idle"]
       /\ par_calls' = [par_calls EXCEPT ![t] = @ + 1]
       /\ UNCHANGED <<par_existe, par_status>>
       /\ UNCHANGED nonParVars

NextPar ==
    \/ \E t \in ParProjects, status \in ParStatuses : par_read(t, status)
    \/ \E t \in ParProjects : par_exists(t)
    \/ \E t \in ParProjects : par_write(t)

(***************************************************************************)
(* ExtractorFactory (src/core/extractor_factory.py).  An extractor object  *)
(* is [id, class]: id numbers the objects in the order of construction.    *)
(***************************************************************************)
MaxInstances == 3

ExtractorTypes == {"direct", "ocr", "hybrid"}
UnknownType == "unknown"
ConfigObjects == {"default", "c1"}
Workers == {"w1", "w2"}
\* self.config of the AsyncPDFProcessor whose worker threads call the factory
ProcessorConfig == "c1"
IdleKey == <<"hybrid", ProcessorConfig>>
CacheKeys == ExtractorTypes \X ConfigObjects

\* the class each decorator registers
ClassOf(extractor_type) ==
    CASE extractor_type = "direct" -> "DirectExtractor"
      [] extractor_type = "ocr" -> "OCRExtractor"
      [] extractor_type = "hybrid" -> "HybridExtractor"
      [] OTHER -> ""

\* DirectExtractor and OCRExtractor raise ImportError from _setup_extractor
\* when their libraries are missing; HybridExtractor never raises
ConstructorMayRaise(extractor_type) == extractor_type \in {"direct", "ocr"}

NoInstance == [id |-> 0, class |-> ""]
Instance(n, extractor_type) == [id |-> n, class |-> ClassOf(extractor_type)]

Registered(extractors) == {extractors[i] : i \in 1..Len(extractors)}

\* cls._extractors[extractor_type] = extractor_class
register(extractors, extractor_type) ==
    IF extractor_type \in Registered(extractors) THEN extractors
    ELSE Append(extractors, extractor_type)

\* f"{extractor_type}_{id(config) if config else 'default'}"
cache_key(extractor_type, config) == <<extractor_type, config>>

\* how create_extractor ends; a factory that never refuses a type
create_kind_any_type(extractors, extractor_type, ctor_ok) ==
    IF ~ctor_ok THEN "ImportError" ELSE "instance"

\* how create_extractor ends
create_kind(extractors, extractor_type, ctor_ok) ==
    IF extractor_type \notin Registered(extractors) THEN "ValueError"
    ELSE IF ~ctor_ok THEN "ImportError"
    ELSE "instance"

\* get_extractor run without interruption: [kind, inst, instances, created]
get(extractors, instances, created, extractor_type, config, ctor_ok) ==
    LET key == cache_key(extractor_type, config)
        kind == create_kind(extractors, extractor_type, ctor_ok)
        new == Instance(created + 1, extractor_type)
    IN IF key \in CacheKeys /\ instances[key] # NoInstance
       THEN [kind |-> "instance", inst |-> instances[key],
             instances |-> instances, created |-> created]
       ELSE IF kind = "instance"
       THEN [kind |-> kind, inst |-> new,
             instances |-> [k \in CacheKeys |-> IF k = key THEN new ELSE instances[k]],
             created |-> created + 1]
       ELSE [kind |-> kind, inst |-> NoInstance,
             instances |-> instances, created |-> created]

\* what get_extractor and is_suitable_for do for one type during the scan
ScanOutcomes == {"suitable", "unsuitable", "raises", "ctor_raises"}

\* the loop of auto_select_extractor over the first n registered types:
\* [suitable, instances, created]
RECURSIVE scan(_, _, _, _, _, _)
scan(extractors, n, instances, created, config, suitability) ==
    IF n = 0 THEN [suitable |-> <<>>, instances |-> instances, created |-> created]
    ELSE LET before == scan(extractors, n - 1, instances, created, config, suitability)
             t == extractors[n]
             g == get(extractors, before.instances, before.created, t, config,
                      suitability[t] # "ctor_raises")
         IN [suitable |-> IF g.kind = "instance" /\ suitability[t] = "suitable"
                          THEN Append(before.suitable, t) ELSE before.suitable,
             instances |-> g.instances,
             created |-> g.created]

\* the choice among the suitable extractors; a choice that ignores hybrid
select_first(suitable_extractors) == suitable_extractors[1]

\* the choice among the suitable extractors: hybrid first
select(suitable_extractors) ==
    IF \E i \in 1..Len(suitable_extractors) : suitable_extractors[i] = "hybrid"
    THEN "hybrid" ELSE suitable_extractors[1]

\* auto_select_extractor: [kind, inst, suitable, instances, created]
auto_select(extractors, instances, created, config, suitability) ==
    LET s == scan(extractors, Len(extractors), instances, created, config, suitability)
        fallback == IF "hybrid" \in Registered(extractors) THEN "hybrid" ELSE extractors[1]
        g == get(extractors, s.instances, s.created, fallback, config,
                 suitability[fallback] # "ctor_raises")
        chosen == select(s.suitable)
    IN IF s.suitable # <<>>
       THEN [kind |-> "instance", inst |-> s.instances[cache_key(chosen, config)],
             suitable |-> s.suitable, instances |-> s.instances, created |-> s.created]
       ELSE IF extractors = <<>>
       THEN [kind |-> "ValueError", inst |-> NoInstance,
             suitable |-> <<>>, instances |-> s.instances, created |-> s.created]
       ELSE [kind |-> g.kind, inst |-> g.inst,
             suitable |-> <<>>, instances |-> g.instances, created |-> g.created]

NoCall == [op |-> "none", type |-> "", kind |-> "", inst |-> NoInstance,
           suitable |-> <<>>, extractors |-> <<>>, outcome |-> <<>>]

InitFactory ==
    /\ f_extractors = <<>>
    /\ f_instances = [k \in CacheKeys |-> NoInstance]
    /\ f_created = 0
    /\ f_made = [k \in CacheKeys |-> {}]
    /\ f_handed = [k \in CacheKeys |-> {}]
    /\ f_last = NoCall
    /\ w_pc = [w \in Workers |-> "idle"]
    /\ w_key = [w \in Workers |-> IdleKey]
    /\ w_inst = [w \in Workers |-> NoInstance]

workerVars == <<w_pc, w_key, w_inst>>

register_extractor(extractor_type) ==
    /\ extractor_type \notin Registered(f_extractors)
    /\ f_extractors' = register(f_extractors, extractor_type)
    /\ UNCHANGED <<f_instances, f_created, f_made, f_handed, f_last, workerVars>>
    /\ UNCHANGED nonFactoryVars

create_extractor(extractor_type, ctor_ok) ==
    LET kind == create_kind(f_extractors, extractor_type, ctor_ok)
    IN /\ f_created < MaxInstances
       /\ ctor_ok \/ ConstructorMayRaise(extractor_type)
       /\ f_created' = IF kind = "instance" THEN f_created + 1 ELSE f_created
       /\ f_last' = [NoCall EXCEPT !.op = "create", !.type = extractor_type, !.kind = kind,
                        !.extractors = f_extractors,
                        !.inst = IF kind = "instance"
                                 THEN Instance(f_created + 1, extractor_type) ELSE NoInstance]
       /\ UNCHANGED <<f_extractors, f_instances, f_made, f_handed, workerVars>>
       /\ UNCHANGED nonFactoryVars

\* get_extractor called where no other thread uses the factory
get_extractor(extractor_type, config, ctor_ok) ==
    LET g == get(f_extractors, f_instances, f_created, extractor_type, config, ctor_ok)
        key == cache_key(extractor_type, config)
    IN /\ f_created < MaxInstances
       /\ ctor_ok \/ ConstructorMayRaise(extractor_type)
       /\ f_instances' = g.instances
       /\ f_created' = g.created
       /\ f_made' = [k \in CacheKeys |->
                        IF k = key /\ g.created # f_created
                        THEN f_made[k] \cup {g.inst.id} ELSE f_made[k]]
       /\ f_handed' = [k \in CacheKeys |->
                          IF k = key /\ g.kind = "instance"
                          THEN f_handed[k] \cup {g.inst.id} ELSE f_handed[k]]
       /\ f_last' = [NoCall EXCEPT !.op = "get", !.type = extractor_type, !.kind = g.kind,
                        !.extractors = f_extractors, !.inst = g.inst]
       /\ UNCHANGED <<f_extractors, workerVars>>
       /\ UNCHANGED nonFactoryVars

auto_select_extractor(config, suitability) ==
    LET a == auto_select(f_extractors, f_instances, f_created, config, suitability)
        made == {k \in CacheKeys : k[2] = config /\ a.instances[k] # f_instances[k]}
    IN /\ f_created + Len(f_extractors) <= MaxInstances
       /\ \A t \in ExtractorTypes :
             /\ t \notin Registered(f_extractors) => suitability[t] = "unsuitable"
             /\ suitability[t] = "ctor_raises" =>
                    ConstructorMayRaise(t) /\ f_instances[cache_key(t, config)] = NoInstance
       /\ f_instances' = a.instances
       /\ f_created' = a.created
       /\ f_made' = [k \in CacheKeys |->
                        IF k \in made THEN f_made[k] \cup {a.instances[k].id} ELSE f_made[k]]
       /\ f_handed' = [k \in CacheKeys |->
                          IF k[2] = config /\ k[1] \in Registered(f_extractors)
                             /\ a.instances[k] # NoInstance
                          THEN f_handed[k] \cup {a.instances[k].id} ELSE f_handed[k]]
       /\ f_last' = [NoCall EXCEPT !.op = "auto", !.kind = a.kind, !.inst = a.inst,
                        !.suitable = a.suitable, !.extractors = f_extractors,
                        !.outcome = suitability]
       /\ UNCHANGED <<f_extractors, workerVars>>
       /\ UNCHANGED nonFactoryVars

clear_cache ==
    /\ \E k \in CacheKeys : f_instances[k] # NoInstance
    /\ f_instances' = [k \in CacheKeys |-> NoInstance]
    /\ f_made' = [k \in CacheKeys |-> {}]
    /\ f_handed' = [k \in CacheKeys |-> {}]
    /\ UNCHANGED <<f_extractors, f_created, f_last, workerVars>>
    /\ UNCHANGED nonFactoryVars

\* get_extractor in a worker thread of _process_batch, lines 74-76: the test
\* cache_key not in cls._instances
w_check(w, extractor_type) ==
    LET key == cache_key(extractor_type, ProcessorConfig)
    IN /\ w_pc[w] = "idle"
       /\ w_key' = [w_key EXCEPT ![w] = key]
       /\ w_pc' = [w_pc EXCEPT ![w] = IF f_instances[key] = NoInstance
                                      THEN "create" ELSE "return"]
       /\ UNCHANGED <<f_extractors, f_instances, f_created, f_made, f_handed, f_last, w_inst>>
       /\ UNCHANGED nonFactoryVars

\* line 77, right-hand side: cls.create_extractor(extractor_type, config)
w_create(w, ctor_ok) ==
    LET key == w_key[w]
        kind == create_kind(f_extractors, key[1], ctor_ok)
        new == Instance(f_created + 1, key[1])
    IN /\ w_pc[w] = "create"
       /\ f_created < MaxInstances
       /\ ctor_ok \/ ConstructorMayRaise(key[1])
       /\ IF kind = "instance"
          THEN /\ w_inst' = [w_inst EXCEPT ![w] = new]
               /\ f_created' = f_created + 1
               /\ f_made' = [f_made EXCEPT ![key] = @ \cup {new.id}]
               /\ w_pc' = [w_pc EXCEPT ![w] = "store"]
          ELSE /\ w_pc' = [w_pc EXCEPT ![w] = "idle"]
               /\ UNCHANGED <<w_inst, f_created, f_made>>
       /\ w_key' = IF kind = "instance" THEN w_key ELSE [w_key EXCEPT ![w] = IdleKey]
       /\ UNCHANGED <<f_extractors, f_instances, f_handed, f_last>>
       /\ UNCHANGED nonFactoryVars

\* line 77, the assignment cls._instances[cache_key] = ...
w_store(w) ==
    /\ w_pc[w] = "store"
    /\ f_instances' = [f_instances EXCEPT ![w_key[w]] = w_inst[w]]
    /\ w_inst' = [w_inst EXCEPT ![w] = NoInstance]
    /\ w_pc' = [w_pc EXCEPT ![w] = "return"]
    /\ UNCHANGED <<f_extractors, f_created, f_made, f_handed, f_last, w_key>>
    /\ UNCHANGED nonFactoryVars

\* line 79: return cls._instances[cache_key], a KeyError when the cache was
\* cleared in between
w_return(w) ==
    LET key == w_key[w]
    IN /\ w_pc[w] = "return"
       /\ f_handed' = IF f_instances[key] = NoInstance THEN f_handed
                      ELSE [f_handed EXCEPT ![key] = @ \cup {f_instances[key].id}]
       /\ w_pc' = [w_pc EXCEPT ![w] = "idle"]
       /\ w_key' = [w_key EXCEPT ![w] = IdleKey]
       /\ UNCHANGED <<f_extractors, f_instances, f_created, f_made, f_last, w_inst>>
       /\ UNCHANGED nonFactoryVars

NextWorkers ==
    \/ \E t \in ExtractorTypes : register_extractor(t)
    \/ \E w \in Workers, t \in ExtractorTypes : w_check(w, t)
    \/ \E w \in Workers, ctor_ok \in BOOLEAN : w_create(w, ctor_ok)
    \/ \E w \in Workers : w_store(w)
    \/ \E w \in Workers : w_return(w)
    \/ clear_cache

NextFactory ==
    \/ \E t \in ExtractorTypes : register_extractor(t)
    \/ \E t \in ExtractorTypes \cup {UnknownType}, ctor_ok \in BOOLEAN :
          create_extractor(t, ctor_ok)
    \/ \E t \in ExtractorTypes \cup {UnknownType}, config \in ConfigObjects,
          ctor_ok \in BOOLEAN : get_extractor(t, config, ctor_ok)
    \/ \E config \in ConfigObjects, suitability \in [ExtractorTypes -> ScanOutcomes] :
          auto_select_extractor(config, suitability)
    \/ clear_cache

(***************************************************************************)
(* AsyncPDFProcessor (src/processors/async_processor.py).                   *)
(***************************************************************************)
MaxFiles == 4

BatchSizes == {1, 2}
WorkerCounts == {1, 2}
Files == 1..MaxFiles

\* how _process_single_file ends: the extractor returns a successful result
\* ("ok") or a failed one ("fail"), an exception is caught by its except
\* clause ("error"), or an exception leaves the function and gather hands it
\* back ("escaped")
FileOutcomes == {"ok", "fail", "error", "escaped"}
CallbackOutcomes == {"none", "ok", "raises"}

NoStats == [total_files |-> 0, processed_files |-> 0,
            successful_extractions |-> 0, failed_extractions |-> 0]

\* the ExtractionResult of a file, of the extractor or built from the exception
ResultOf(f, out) ==
    [file_path |-> f, success |-> (out = "ok"),
     extraction_method |-> IF out \in {"error", "escaped"} THEN "Error" ELSE "extractor"]

\* batch = pdf_files[i:i + self.batch_size]
Batch(i, batch_size, n) == {f \in 1..n : i < f /\ f <= i + batch_size}

\* _update_stats that forgets the failures
update_stats_success_only(stats, result) ==
    [stats EXCEPT !.processed_files = @ + 1,
                  !.successful_extractions = IF result.success THEN @ + 1 ELSE @]

\* _update_stats
update_stats(stats, result) ==
    [stats EXCEPT !.processed_files = @ + 1,
                  !.successful_extractions = IF result.success THEN @ + 1 ELSE @,
                  !.failed_extractions = IF result.success THEN @ ELSE @ + 1]

\* a pool that starts every submitted task at once
ExecutorFree_unbounded(task, max_workers) == TRUE

\* ThreadPoolExecutor(max_workers): a thread is free for the next task
ExecutorFree(task, max_workers) ==
    Cardinality({f \in Files : task[f] = "running"}) < max_workers

\* the try/except around file_processed_callback; one that lets the error out
AfterCallback_propagates(cb) == IF cb = "raises" THEN "abort" ELSE "continue"

\* the try/except around file_processed_callback
AfterCallback(cb) == "continue"

\* asyncio.gather keeps the order of the tasks, which is the order of the
\* batch; here the results come in the order the threads finished
gather_completion_order(i, batch_size, n, out, finished) ==
    LET mine == SelectSeq(finished, LAMBDA f : f \in Batch(i, batch_size, n))
    IN [k \in 1..Len(mine) |-> ResultOf(mine[k], out[mine[k]])]

\* asyncio.gather keeps the order of the tasks, which is the order of the batch
gather(i, batch_size, n, out, finished) ==
    [k \in 1..Cardinality(Batch(i, batch_size, n)) |-> ResultOf(i + k, out[i + k])]

InitAsync ==
    /\ a_pc = "idle"
    /\ a_files = 0
    /\ a_batch_size = 1
    /\ a_max_workers = 1
    /\ a_start = 0
    /\ a_task = [f \in Files |-> "pending"]
    /\ a_out = [f \in Files |-> ""]
    /\ a_done_order = <<>>
    /\ a_batch = <<>>
    /\ a_counted = 0
    /\ a_results = <<>>
    /\ a_stats = NoStats
    /\ a_cb_raised = 0

\* AsyncPDFProcessor(config) and process_files up to the loop
process_files(n, batch_size, max_workers) ==
    /\ a_pc = "idle"
    /\ a_files' = n
    /\ a_batch_size' = batch_size
    /\ a_max_workers' = max_workers
    /\ a_stats' = [NoStats EXCEPT !.total_files = n]
    /\ a_pc' = IF n = 0 THEN "returned" ELSE "next"
    /\ UNCHANGED <<a_start, a_task, a_out, a_done_order, a_batch, a_counted, a_results,
                   a_cb_raised>>
    /\ UNCHANGED nonAsyncVars

\* _process_batch: every file of the batch is handed to the executor
submit_batch ==
    /\ a_pc = "next"
    /\ a_task' = [f \in Files |->
                     IF f \in Batch(a_start, a_batch_size, a_files) THEN "queued"
                     ELSE a_task[f]]
    /\ a_pc' = "batch"
    /\ UNCHANGED <<a_files, a_batch_size, a_max_workers, a_start, a_out, a_done_order,
                   a_batch, a_counted, a_results, a_stats, a_cb_raised>>
    /\ UNCHANGED nonAsyncVars

\* a thread of the executor takes the oldest waiting task
worker_start(f) ==
    /\ a_pc = "batch"
    /\ a_task[f] = "queued"
    /\ \A g \in Files : a_task[g] = "queued" => f <= g
    /\ ExecutorFree(a_task, a_max_workers)
    /\ a_task' = [a_task EXCEPT ![f] = "running"]
    /\ UNCHANGED <<a_pc, a_files, a_batch_size, a_max_workers, a_start, a_out, a_done_order,
                   a_batch, a_counted, a_results, a_stats, a_cb_raised>>
    /\ UNCHANGED nonAsyncVars

\* _process_single_file ends in its thread
process_single_file(f, out) ==
    /\ a_pc = "batch"
    /\ a_task[f] = "running"
    /\ a_task' = [a_task EXCEPT ![f] = "done"]
    /\ a_out' = [a_out EXCEPT ![f] = out]
    /\ a_done_order' = Append(a_done_order, f)
    /\ UNCHANGED <<a_pc, a_files, a_batch_size, a_max_workers, a_start,
                   a_batch, a_counted, a_results, a_stats, a_cb_raised>>
    /\ UNCHANGED nonAsyncVars

\* the executor is left and gather returns: processed_results is built
gather_results ==
    /\ a_pc = "batch"
    /\ \A f \in Batch(a_start, a_batch_size, a_files) : a_task[f] = "done"
    /\ a_batch' = gather(a_start, a_batch_size, a_files, a_out, a_done_order)
    /\ a_counted' = 0
    /\ a_pc' = "stats"
    /\ UNCHANGED <<a_files, a_batch_size, a_max_workers, a_start, a_task, a_out,
                   a_done_order, a_results, a_stats, a_cb_raised>>
    /\ UNCHANGED nonAsyncVars

\* one pass of the loop "for result in processed_results"
count_result(cb) ==
    /\ a_pc = "stats"
    /\ a_counted < Len(a_batch)
    /\ a_stats' = update_stats(a_stats, a_batch[a_counted + 1])
    /\ a_counted' = a_counted + 1
    /\ a_cb_raised' = IF cb = "raises" THEN a_cb_raised + 1 ELSE a_cb_raised
    /\ a_pc' = IF AfterCallback(cb) = "abort" THEN "raised" ELSE "stats"
    /\ UNCHANGED <<a_files, a_batch_size, a_max_workers, a_start, a_task, a_out,
                   a_done_order, a_batch, a_results>>
    /\ UNCHANGED nonAsyncVars

\* _process_batch returns, process_files extends results, calls
\* progress_callback and goes to the next batch or returns
batch_return(progress_raises) ==
    /\ a_pc = "stats"
    /\ a_counted = Len(a_batch)
    /\ a_results' = a_results \o a_batch
    /\ a_start' = a_start + a_batch_size
    /\ a_batch' = <<>>
    /\ a_counted' = 0
    /\ a_pc' = IF progress_raises THEN "raised"
               ELSE IF a_start + a_batch_size >= a_files THEN "returned" ELSE "next"
    /\ UNCHANGED <<a_files, a_batch_size, a_max_workers, a_task, a_out, a_done_order,
                   a_stats, a_cb_raised>>
    /\ UNCHANGED nonAsyncVars

NextAsync ==
    \/ \E n \in 0..MaxFiles, batch_size \in BatchSizes, max_workers \in WorkerCounts :
          process_files(n, batch_size, max_workers)
    \/ submit_batch
    \/ \E f \in Files : worker_start(f)
    \/ \E f \in Files, out \in FileOutcomes : process_single_file(f, out)
    \/ gather_results
    \/ \E cb \in CallbackOutcomes : count_result(cb)
    \/ \E progress_raises \in BOOLEAN : batch_return(progress_raises)

(***************************************************************************)
(* append_ctrl_csv and popular_csv_de_processados called one after the     *)
(* other with any arguments (extracao_openai_vision_v3.py).                *)
(***************************************************************************)
MaxRows == 3

\* jsons[0] of glob(Processados/<projeto>/resultados/<nome>/openai_vision_*.json)
ArchivedJson(n) ==
    CASE n = "a.pdf" -> "Processados/p1/resultados/a/openai_vision_a.json"
      [] n = "b.pdf" -> "Processados/p1/resultados/b/openai_vision_b.json"

\* the records the program hands to append_ctrl_csv
CallRecords ==
    {<<"p1", n, "h1", st, JsonOutput("p1", n)>> :
        n \in PdfNames, st \in {"processing", "success", "error"}}
    \cup {<<"p1", n, "h1", "success", ArchivedJson(n)>> : n \in PdfNames}

\* the PDFs popular_csv_de_processados finds with a result, in the order of
\* os.listdir
Listings ==
    {<<>>, <<"a.pdf">>, <<"b.pdf">>, <<"a.pdf", "b.pdf">>, <<"b.pdf", "a.pdf">>}

\* the loop of popular_csv_de_processados over the first k PDFs found:
\* [file, existentes]
RECURSIVE popular_loop(_, _, _, _)
popular_loop(file, existentes, pdfs, k) ==
    IF k = 0 THEN [file |-> file, registros_existentes |-> existentes]
    ELSE LET before == popular_loop(file, existentes, pdfs, k - 1)
             pdf == pdfs[k]
             reg_key == <<"p1", pdf, "h1", "success", ArchivedJson(pdf)>>
         IN IF reg_key \in before.registros_existentes THEN before
            ELSE [file |-> append_ctrl_csv(before.file, "p1", pdf, "h1", "success",
                                           ArchivedJson(pdf), Now),
                  registros_existentes |-> before.registros_existentes \cup {reg_key}]

\* popular_csv_de_processados: the records are loaded once, then the loop
popular_csv_de_processados(file, pdfs) ==
    LET rows == DictReader(file)
        existentes == {RecordKey(rows[i]) : i \in 1..Len(rows)}
    IN popular_loop(file, existentes, pdfs, Len(pdfs)).file

InitCalls ==
    /\ l_ledger = [exists |-> FALSE, lines |-> <<>>]
    /\ l_op = "none"
    /\ l_last = <<>>
    /\ l_wrote = FALSE

\* one call of append_ctrl_csv
CallAppend(reg) ==
    LET novo == append_ctrl_csv(l_ledger, reg[1], reg[2], reg[3], reg[4], reg[5], Now)
    IN /\ Len(novo.lines) <= MaxRows + 1
       /\ l_ledger' = novo
       /\ l_op' = "append"
       /\ l_last' = reg
       /\ l_wrote' = (novo # l_ledger)
       /\ UNCHANGED nonCallsVars

\* one call of popular_csv_de_processados
CallPopular(pdfs) ==
    LET novo == popular_csv_de_processados(l_ledger, pdfs)
    IN /\ Len(novo.lines) <= MaxRows + 1
       /\ l_ledger' = novo
       /\ l_op' = "popular"
       /\ l_last' = <<>>
       /\ l_wrote' = (novo # l_ledger)
       /\ UNCHANGED nonCallsVars

NextCalls ==
    \/ \E reg \in CallRecords : CallAppend(reg)
    \/ \E pdfs \in Listings : CallPopular(pdfs)

(***************************************************************************)
(* The main program (__main__ of extracao_openai_vision_v3.py) and         *)
(* process_project.                                                        *)
(***************************************************************************)
ProjectOrder == <<"p1">>

NoArchive == [pdfs |-> FALSE, resultados |-> 0]

HasPdfs(p) == \E n \in PdfNames : inbox[p][n] # NoFile

\* all the orders in which the PDFs of project p can be listed (sorted by ctime)
PdfOrders(p) ==
    LET present == {n \in PdfNames : inbox[p][n] # NoFile}
    IN {q \in UNION {[1..k -> present] : k \in 0..Cardinality(PdfNames)} :
            /\ Len(q) = Cardinality(present)
            /\ \A i, j \in 1..Len(q) : i # j => q[i] # q[j]}

Init ==
    /\ ledger = [exists |-> FALSE, lines |-> <<>>]
    /\ inbox = [p \in Projects |-> [n \in PdfNames |-> NoFile]]
    /\ results = {}
    /\ archive = [p \in Projects |-> NoArchive]
    /\ pc = "idle"
    /\ run = 0
    /\ ctrl = [k \in Keys |-> NoRow]
    /\ max_concurrent = 1
    /\ projQueue = <<>>
    /\ cur_project = ""
    /\ pdfQueue = <<>>
    /\ cur_pdf = ""
    /\ cur_hash = ""
    /\ phase_times = <<>>
    /\ pages = 0
    /\ page_task = <<>>
    /\ done_order = <<>>
    /\ txt_file = NoTxt
    /\ outcome = "none"
    /\ appendLog = <<>>
    /\ interrupted = {}
    /\ resumed = FALSE
    /\ InitHybrid
    /\ InitValida
    /\ InitCsv
    /\ InitPar
    /\ InitFactory
    /\ InitAsync
    /\ InitCalls

\* nothing of the extraction of the previous PDF is left
ResetExtract ==
    /\ pages' = 0
    /\ page_task' = <<>>
    /\ done_order' = <<>>
    /\ txt_file' = NoTxt
    /\ outcome' = "none"
    /\ appendLog' = <<>>
    /\ resumed' = FALSE

\* the user drops a PDF into the folder of a project
StagePdf(p, n, h) ==
    /\ pc = "idle"
    /\ inbox[p][n] = NoFile
    /\ h \in Contents(n)
    /\ inbox' = [inbox EXCEPT ![p][n] = h]
    /\ UNCHANGED nonPipelineVars
    /\ UNCHANGED <<interrupted, resumed, ledger, results, archive, mainVars, extractVars>>

\* __main__: load the ledger, scan the pending projects, start the pool
StartRun ==
    /\ pc = "idle"
    /\ run < MaxRuns
    /\ \E p \in Projects : HasPdfs(p)
    /\ run' = run + 1
    /\ ctrl' = carrega_ctrl_csv(ledger)
    /\ max_concurrent' = 1
    /\ projQueue' = SelectSeq(ProjectOrder, HasPdfs)
    /\ phase_times' = start_phase(end_phase(start_phase(end_phase(start_phase(<<>>,
                          "INIT"), "INIT"), "PDF_SCAN"), "PDF_SCAN"), "PARALLEL_EXEC")
    /\ pc' = "project"
    /\ cur_project' = ""
    /\ pdfQueue' = <<>>
    /\ cur_pdf' = ""
    /\ cur_hash' = ""
    /\ ResetExtract
    /\ UNCHANGED nonPipelineVars
    /\ UNCHANGED <<interrupted, ledgerVars>>

\* process_project up to the loop over pdf_files
BeginProject ==
    /\ pc = "project"
    /\ projQueue # <<>>
    /\ cur_project' = Head(projQueue)
    /\ projQueue' = Tail(projQueue)
    /\ \E q \in PdfOrders(Head(projQueue)) : pdfQueue' = q
    /\ pc' = "pdf"
    /\ UNCHANGED nonPipelineVars
    /\ UNCHANGED <<interrupted, resumed, ledgerVars, run, ctrl, max_concurrent, cur_pdf, cur_hash, extractVars>>

\* the skip test of process_project
ShouldSkip(registro, json_exists) ==
    registro # NoRow /\ registro.status = "success" /\ json_exists

\* one iteration of the loop, up to the call of extract_text_openai_vision
BeginPdf ==
    /\ pc = "pdf"
    /\ pdfQueue # <<>>
    /\ LET n == Head(pdfQueue)
           p == cur_project
           hash_pdf == inbox[p][n]
           registro == ctrl[<<p, n, hash_pdf>>]
           novo == append_ctrl_csv(ledger, p, n, hash_pdf, "processing", JsonOutput(p, n), Now)
       IN /\ pdfQueue' = Tail(pdfQueue)
          /\ cur_pdf' = n
          /\ cur_hash' = hash_pdf
          /\ pages' = 0
          /\ page_task' = <<>>
          /\ done_order' = <<>>
          /\ txt_file' = NoTxt
          /\ outcome' = "none"
          /\ IF ShouldSkip(registro, <<p, n>> \in results)
             THEN /\ pc' = "pdf"
                  /\ appendLog' = <<>>
                  /\ UNCHANGED ledger
             ELSE /\ pc' = "extract"
                  /\ ledger' = novo
                  /\ appendLog' = <<[status |-> "processing", wrote |-> novo # ledger]>>
          /\ interrupted' = interrupted \ {<<p, n, hash_pdf>>}
          /\ resumed' = (<<p, n, hash_pdf>> \in interrupted)
    /\ UNCHANGED nonPipelineVars
    /\ UNCHANGED <<inbox, results, archive, run, ctrl, max_concurrent, projQueue, cur_project,
                   phase_times>>


(***************************************************************************)
(* extract_text_openai_vision_async, step by step.                         *)
(***************************************************************************)
\* the library or the API key is missing: an error text is written, False returned
ExtractNoKey ==
    /\ pc = "extract"
    /\ txt_file' = NoKeyTxt
    /\ outcome' = "false"
    /\ pc' = "record"
    /\ UNCHANGED nonPipelineVars
    /\ UNCHANGED <<interrupted, resumed, ledgerVars, run, ctrl, max_concurrent, projQueue, cur_project, pdfQueue,
                   cur_pdf, cur_hash, phase_times, pages, page_task, done_order, appendLog>>

\* convert_from_path raises: PDF_CONV is ended, the exception reaches the handler
ExtractConvertFails ==
    /\ pc = "extract"
    /\ LET pt == end_phase(start_phase(end_phase(start_phase(phase_times,
                     "INIT"), "INIT"), "PDF_CONV"), "PDF_CONV")
           h == ExceptHandler(pt, txt_file)
       IN /\ phase_times' = h.phase_times
          /\ txt_file' = h.txt
          /\ outcome' = h.outcome
    /\ pc' = "record"
    /\ UNCHANGED nonPipelineVars
    /\ UNCHANGED <<interrupted, resumed, ledgerVars, run, ctrl, max_concurrent, projQueue, cur_project, pdfQueue,
                   cur_pdf, cur_hash, pages, page_task, done_order, appendLog>>

\* saving or encoding a page image raises while TEXT_PROC is active
ExtractPrepareFails ==
    /\ pc = "extract"
    /\ LET pt == start_phase(end_phase(start_phase(end_phase(start_phase(phase_times,
                     "INIT"), "INIT"), "PDF_CONV"), "PDF_CONV"), "TEXT_PROC")
           h == ExceptHandler(pt, txt_file)
       IN /\ phase_times' = h.phase_times
          /\ txt_file' = h.txt
          /\ outcome' = h.outcome
    /\ pc' = "record"
    /\ UNCHANGED nonPipelineVars
    /\ UNCHANGED <<interrupted, resumed, ledgerVars, run, ctrl, max_concurrent, projQueue, cur_project, pdfQueue,
                   cur_pdf, cur_hash, pages, page_task, done_order, appendLog>>

\* the PDF converts to k pages; the page tasks are created and gathered
ExtractStart(k, mc) ==
    /\ pc = "extract"
    /\ pages' = k
    /\ max_concurrent' = mc
    /\ page_task' = [i \in 1..k |-> Waiting]
    /\ done_order' = <<>>
    /\ phase_times' = start_phase(end_phase(start_phase(end_phase(start_phase(end_phase(
                          start_phase(phase_times, "INIT"), "INIT"), "PDF_CONV"), "PDF_CONV"),
                          "TEXT_PROC"), "TEXT_PROC"), "API_CALL")
    /\ pc' = "gather"
    /\ UNCHANGED nonPipelineVars
    /\ UNCHANGED <<interrupted, resumed, ledgerVars, run, ctrl, projQueue, cur_project, pdfQueue,
                   cur_pdf, cur_hash, txt_file, outcome, appendLog>>

\* process_with_semaphore(page_num) enters `async with semaphore` and sends its request
AcquirePage ==
    /\ pc = "gather"
    /\ NextWaiting(page_task) # 0
    /\ SemaphoreFree(page_task, max_concurrent)
    /\ page_task' = [page_task EXCEPT ![NextWaiting(page_task)] = InFlight]
    /\ UNCHANGED nonPipelineVars
    /\ UNCHANGED <<interrupted, resumed, ledgerVars, mainVars, phase_times, pages, done_order, txt_file, outcome,
                   appendLog>>

\* the API answers (or fails) for page i; process_page_async returns, the permit is released
PageReply(i, reply) ==
    /\ pc = "gather"
    /\ i \in DOMAIN page_task
    /\ page_task[i] = InFlight
    /\ page_task' = [page_task EXCEPT ![i] = reply]
    /\ done_order' = Append(done_order, i)
    /\ UNCHANGED nonPipelineVars
    /\ UNCHANGED <<interrupted, resumed, ledgerVars, mainVars, phase_times, pages, txt_file, outcome, appendLog>>

AllPagesDone == \A i \in DOMAIN page_task : page_task[i] \in Replies

\* gather has returned: the text is assembled, the consolidation request is
\* made (json_ok tells whether requisicao_async returned a text or None) and
\* the files are written
Consolidate(json_ok) ==
    /\ pc = "gather"
    /\ AllPagesDone
    /\ LET extracted_text == Sections(SortByPage(GatherResults(page_task)))
           pt == start_phase(end_phase(phase_times, "API_CALL"), "FILE_SAVE")
           h == ExceptHandler(pt, extracted_text)
       IN IF json_ok
          THEN /\ txt_file' = extracted_text
               /\ results' = results \cup {<<cur_project, cur_pdf>>}
               /\ phase_times' = end_phase(pt, "FILE_SAVE")
               /\ outcome' = "true"
          ELSE \* "".join([None]) raises TypeError after txt_path was written
               /\ txt_file' = h.txt
               /\ phase_times' = h.phase_times
               /\ outcome' = h.outcome
               /\ UNCHANGED results
    /\ pc' = "record"
    /\ UNCHANGED nonPipelineVars
    /\ UNCHANGED <<interrupted, resumed, ledger, inbox, archive, run, ctrl, max_concurrent, projQueue, cur_project,
                   pdfQueue, cur_pdf, cur_hash, pages, page_task, done_order, appendLog>>

(***************************************************************************)
(* process_project after the extraction.                                   *)
(***************************************************************************)
\* status = "success" if success else "error"; an exception is recorded as "error"
TerminalStatus(o) == IF o = "true" THEN "success" ELSE "error"

RecordTerminal ==
    /\ pc = "record"
    /\ LET status == TerminalStatus(outcome)
           novo == append_ctrl_csv(ledger, cur_project, cur_pdf, cur_hash, status,
                                   JsonOutput(cur_project, cur_pdf), Now)
       IN /\ ledger' = novo
          /\ appendLog' = Append(appendLog, [status |-> status, wrote |-> novo # ledger])
    /\ pc' = "pdf"
    /\ max_concurrent' = 1
    /\ pages' = 0
    /\ page_task' = <<>>
    /\ done_order' = <<>>
    /\ txt_file' = NoTxt
    /\ UNCHANGED nonPipelineVars
    /\ UNCHANGED <<interrupted, resumed, inbox, results, archive, run, ctrl, projQueue, cur_project,
                   pdfQueue, cur_pdf, cur_hash, phase_times, outcome>>

\* shutil.move(project_pdf_path, destino): destino exists, so the folder goes
\* into it, and the move fails when it is already there (or a file is locked)
MovePdfsOk(a, locked) == ~locked /\ ~a.pdfs

\* shutil.move(project_output_dir, destino/resultados)
MoveResultsOk(a, locked) == ~locked /\ a.resultados < 2

\* the end of process_project: the project and its results go to Processados
MoveProject(lockedPdfs, lockedResults) ==
    /\ pc = "pdf"
    /\ pdfQueue = <<>>
    /\ LET p == cur_project
           a == archive[p]
           okP == MovePdfsOk(a, lockedPdfs)
           okR == MoveResultsOk(a, lockedResults)
       IN /\ inbox' = IF okP THEN [inbox EXCEPT ![p] = [n \in PdfNames |-> NoFile]] ELSE inbox
          /\ results' = IF okR THEN {r \in results : r[1] # p} ELSE results
          /\ archive' = [archive EXCEPT ![p] =
                            [pdfs |-> a.pdfs \/ okP,
                             resultados |-> IF okR THEN a.resultados + 1 ELSE a.resultados]]
    /\ pc' = "project"
    /\ cur_pdf' = ""
    /\ cur_hash' = ""
    /\ ResetExtract
    /\ UNCHANGED nonPipelineVars
    /\ UNCHANGED <<interrupted, ledger, run, ctrl, max_concurrent, projQueue, cur_project, pdfQueue,
                   phase_times>>

\* the pool is drained and the program ends
EndRun ==
    /\ pc = "project"
    /\ projQueue = <<>>
    /\ pc' = "idle"
    /\ cur_project' = ""
    /\ phase_times' = <<>>
    /\ ctrl' = [k \in Keys |-> NoRow]
    /\ max_concurrent' = 1
    /\ UNCHANGED nonPipelineVars
    /\ UNCHANGED <<interrupted, resumed, ledgerVars, run, projQueue, pdfQueue, cur_pdf, cur_hash, extractVarsRest>>

\* the process is killed: the files stay as they are, the memory is lost
Crash ==
    /\ pc \notin {"idle"}
    /\ pc' = "idle"
    /\ projQueue' = <<>>
    /\ cur_project' = ""
    /\ pdfQueue' = <<>>
    /\ cur_pdf' = ""
    /\ cur_hash' = ""
    /\ phase_times' = <<>>
    /\ ctrl' = [k \in Keys |-> NoRow]
    /\ max_concurrent' = 1
    /\ ResetExtract
    /\ interrupted' = IF pc \in {"extract", "gather", "record"}
                      THEN interrupted \cup {<<cur_project, cur_pdf, cur_hash>>}
                      ELSE interrupted
    /\ UNCHANGED nonPipelineVars
    /\ UNCHANGED <<ledgerVars, run>>

Next ==
    \/ \E p \in Projects, n \in PdfNames, h \in Hashes : StagePdf(p, n, h)
    \/ StartRun
    \/ BeginProject
    \/ BeginPdf
    \/ ExtractNoKey
    \/ ExtractConvertFails
    \/ ExtractPrepareFails
    \/ \E k \in 0..BatchPages : ExtractStart(k, MaxConc)
    \/ AcquirePage
    \/ \E i \in 1..MaxPages, reply \in Replies : PageReply(i, reply)
    \/ \E json_ok \in BOOLEAN : Consolidate(json_ok)
    \/ RecordTerminal
    \/ \E lockedPdfs, lockedResults \in BOOLEAN : MoveProject(lockedPdfs, lockedResults)
    \/ EndRun
    \/ Crash

Spec == Init /\ [][Next]_vars


(***************************************************************************)
(* One call of extract_text_openai_vision_async on its own: the state is   *)
(* the one in which process_project makes its first call (one PDF staged,  *)
(* its "processing" row written), for every page count and every          *)
(* max_concurrent of the bounds.                                           *)
(***************************************************************************)
FirstCall ==
    /\ ledger = append_ctrl_csv([exists |-> FALSE, lines |-> <<>>], "p1", "a.pdf", "h1",
                                "processing", JsonOutput("p1", "a.pdf"), Now)
    /\ inbox = [p \in Projects |-> [n \in PdfNames |-> IF n = "a.pdf" THEN "h1" ELSE NoFile]]
    /\ results = {}
    /\ archive = [p \in Projects |-> NoArchive]
    /\ pc = "extract"
    /\ run = 1
    /\ ctrl = [k \in Keys |-> NoRow]
    /\ max_concurrent = 1
    /\ projQueue = <<>>
    /\ cur_project = "p1"
    /\ pdfQueue = <<>>
    /\ cur_pdf = "a.pdf"
    /\ cur_hash = "h1"
    /\ phase_times = <<"PARALLEL_EXEC">>
    /\ pages = 0
    /\ page_task = <<>>
    /\ done_order = <<>>
    /\ txt_file = NoTxt
    /\ outcome = "none"
    /\ appendLog = <<[status |-> "processing", wrote |-> TRUE]>>
    /\ interrupted = {}
    /\ resumed = FALSE
    /\ InitHybrid
    /\ InitValida
    /\ InitCsv
    /\ InitPar
    /\ InitFactory
    /\ InitAsync
    /\ InitCalls

NextVision ==
    \/ ExtractNoKey
    \/ ExtractConvertFails
    \/ ExtractPrepareFails
    \/ \E k \in 0..MaxPages, mc \in 1..MaxConc : ExtractStart(k, mc)
    \/ AcquirePage
    \/ \E i \in 1..MaxPages, reply \in Replies : PageReply(i, reply)
    \/ \E json_ok \in BOOLEAN : Consolidate(json_ok)

SpecVision == FirstCall /\ [][NextVision]_vars

SpecHybrid == Init /\ [][NextHybrid]_vars

SpecValida == Init /\ [][NextValida]_vars

SpecCsv == Init /\ [][NextCsv]_vars

SpecPar == Init /\ [][NextPar]_vars

SpecFactory == Init /\ [][NextFactory]_vars

SpecWorkers == Init /\ [][NextWorkers]_vars

SpecAsync == Init /\ [][NextAsync]_vars

SpecCalls == Init /\ [][NextCalls]_vars


(***************************************************************************)
(* Properties of the ledger (specification Spec).                          *)
(***************************************************************************)
LedgerRows == DictReader(ledger)

\* a step of BeginPdf: process_project visits the next PDF of its list
BeginPdfStep == pc = "pdf" /\ pdfQueue # <<>> /\ pc' # "idle"

NextPdf == Head(pdfQueue)
NextHash == inbox[cur_project][NextPdf]
\* the PDF was skipped: no extraction, no ledger row
SkippedStep == pc' = "pdf" /\ ledger' = ledger /\ outcome' = "none"

\* the state right after BeginPdf skipped cur_pdf
JustSkipped == pc = "pdf" /\ cur_pdf # "" /\ appendLog = <<>>

\* C1: a PDF whose hash is in a "success" row of the ledger is
\* skipped, without extraction and without a new ledger row.
C1_SuccessHashIsSkipped ==
    [][(BeginPdfStep /\ \E i \in 1..Len(LedgerRows) :
                            /\ LedgerRows[i].hash_pdf = NextHash
                            /\ LedgerRows[i].status = "success")
        => SkippedStep]_vars

\* C2: every "success" row of the ledger names an output file
\* that exists.
C2_SuccessRowHasOutput ==
    \A i \in 1..Len(LedgerRows) :
        LedgerRows[i].status = "success"
            => \E r \in results : JsonOutput(r[1], r[2]) = LedgerRows[i].output_path

\* C3: for every PDF that is not skipped a "processing" row is
\* appended before the extraction and exactly one terminal row after it.
C3_RowsAreAppended ==
    /\ pc \in {"extract", "gather", "record"}
           => Len(appendLog) = 1 /\ appendLog[1] = [status |-> "processing", wrote |-> TRUE]
    /\ (pc = "pdf" /\ appendLog # <<>>)
           => /\ Len(appendLog) = 2
              /\ appendLog[1] = [status |-> "processing", wrote |-> TRUE]
              /\ appendLog[2].status \in {"success", "error"}
              /\ appendLog[2].wrote

TextAssembled == pc = "record" /\ (pages > 0 \/ outcome = "true")

PageNumbers(txt) == [i \in 1..Len(txt) |-> txt[i].page]

\* C7: at no time are more than max_concurrent page requests in flight,
\* for any number of pages and any max_concurrent >= 1.
C7_SemaphoreBoundsInFlight ==
    InFlightCount(page_task) <= max_concurrent

\* C7 witness: every permit is taken while another page waits for one
C7_Witness ==
    /\ pc = "gather"
    /\ max_concurrent = MaxConc
    /\ InFlightCount(page_task) = max_concurrent
    /\ NextWaiting(page_task) # 0

\* C8: the failure of the API call of one page does not abort the
\* extraction: the failure is turned into the page's result, the section of
\* the failing page carries the error marker, and every other page is still
\* requested and has its section written.
C8_PageFailureIsContained ==
    /\ (pc = "gather" /\ \E i \in DOMAIN page_task : page_task[i] = "erro")
           => outcome = "none"
    /\ TextAssembled
           => /\ Len(txt_file) = pages
              /\ \A i \in 1..pages :
                    /\ page_task[i] \in Replies
                    /\ \E j \in 1..Len(done_order) : done_order[j] = i
                    /\ txt_file[i].page = i
                    /\ page_task[i] = "erro" => txt_file[i].body = ErroMarker
                    /\ page_task[i] = "text" => txt_file[i].body = "page text"
                    /\ page_task[i] = "blank" => txt_file[i].body = BlankMarker

\* C8 witness: the first page to answer failed, the others were still
\* requested and the text was written
C8_Witness ==
    /\ TextAssembled
    /\ pages = MaxPages
    /\ page_task[1] = "erro"
    /\ done_order[1] = 1
    /\ \A i \in 2..pages : page_task[i] = "text"
    /\ outcome = "true"

\* C9: the text output has exactly one section for each page of the PDF,
\* numbered 1..total in ascending order, whatever the order in which the
\* page requests completed.
C9_OneSectionPerPageAscending ==
    TextAssembled => PageNumbers(txt_file) = [i \in 1..pages |-> i]

\* C9 witness: the pages completed out of page order
C9_Witness ==
    /\ TextAssembled
    /\ pages = MaxPages
    /\ done_order[1] > done_order[2]
    /\ Len(txt_file) = MaxPages

(***************************************************************************)
(* Properties of HybridExtractor.extract_text (specification SpecHybrid).  *)
(***************************************************************************)
\* the call reached the extraction strategies (the PDF was valid)
DirectAttempted == h_direct # NoResult
OcrInvoked == h_ocr # NoResult

\* the threshold and the fallback switch, read from the config dict
ConfiguredThreshold ==
    IF h_config.min_text_length = {} THEN DefaultMinTextLength
    ELSE CHOOSE n \in h_config.min_text_length : TRUE
FallbackEnabled == h_config.ocr_fallback # {FALSE}

\* success flag, enough text after stripping, at least one page
Adequate(result) ==
    /\ result.success
    /\ Len(Strip(result.text_content)) >= ConfiguredThreshold
    /\ result.pages_processed > 0

\* C5: if the direct extraction yields non-empty text, the OCR fallback
\* is not invoked.
C5_NonEmptyDirectNoOcr ==
    (DirectAttempted /\ h_direct.text_content # <<>>) => ~OcrInvoked

\* C5 as amended: if the direct extraction succeeds with at least
\* min_text_length characters of stripped text, the OCR fallback is not
\* invoked and the direct result is returned.
C5_AdequateDirectNoOcr ==
    (DirectAttempted /\ Adequate(h_direct))
        => /\ ~OcrInvoked
           /\ h_result.text_content = h_direct.text_content
           /\ h_result.extraction_method = "Hybrid PDF Text Extractor (Direct)"

\* C5 witness: the direct text has exactly min_text_length characters
C5_Witness ==
    /\ DirectAttempted
    /\ h_direct.success
    /\ Len(Strip(h_direct.text_content)) = ConfiguredThreshold
    /\ ~OcrInvoked
    /\ h_result.extraction_method = "Hybrid PDF Text Extractor (Direct)"

\* C6: if the text of the direct extraction is shorter than min_text_length,
\* OCR is invoked, and when the OCR result is successful it is the OCR
\* result that is returned.
C6_ShortDirectInvokesOcr ==
    (DirectAttempted /\ Len(Strip(h_direct.text_content)) < ConfiguredThreshold)
        => /\ OcrInvoked
           /\ h_ocr.success
                  => /\ h_result.text_content = h_ocr.text_content
                     /\ h_result.extraction_method = "Hybrid PDF Text Extractor (OCR)"

\* C6 as amended: with ocr_fallback left enabled, if the text of the direct
\* extraction is shorter than min_text_length, OCR is invoked, and when the
\* OCR result is successful with at least min_text_length characters of
\* stripped text it is the OCR result that is returned.
C6_ShortDirectInvokesEnabledOcr ==
    (/\ FallbackEnabled
     /\ DirectAttempted
     /\ Len(Strip(h_direct.text_content)) < ConfiguredThreshold)
        => /\ OcrInvoked
           /\ Adequate(h_ocr)
                  => /\ h_result.text_content = h_ocr.text_content
                     /\ h_result.file_path = h_path
                     /\ h_result.extraction_method = "Hybrid PDF Text Extractor (OCR)"

\* C6 witness: the direct text is too short, the OCR text is not
C6_Witness ==
    /\ DirectAttempted
    /\ h_direct.success
    /\ Len(Strip(h_direct.text_content)) < ConfiguredThreshold
    /\ OcrInvoked
    /\ Adequate(h_ocr)
    /\ h_result.extraction_method = "Hybrid PDF Text Extractor (OCR)"

(***************************************************************************)
(* Properties of verificar_pdf_valido (specification SpecValida).          *)
(***************************************************************************)
RECURSIVE SumTenths(_)
SumTenths(sl) == IF sl = <<>> THEN 0 ELSE Head(sl).tenths + SumTenths(Tail(sl))

\* the time slept between the end of attempt t and the start of attempt t + 1
WaitAfter(t) == SumTenths(SelectSeq(v_sleeps, LAMBDA e : e.tentativa = t))

\* attempts are numbered, at most three are made, only a lock error is
\* followed by another attempt, a third lock error and any other error
\* end the call with False
RetryDiscipline ==
    /\ Len(v_attempts) <= 3
    /\ v_pc = "attempt" => tentativa = Len(v_attempts) + 1
    /\ \A t \in 1..(Len(v_attempts) - 1) : v_attempts[t] \in {"inner_lock", "outer_lock"}
    /\ (v_pc = "attempt" /\ v_attempts # <<>>)
           => v_attempts[Len(v_attempts)] \in {"inner_lock", "outer_lock"}
    /\ (Len(v_attempts) = 3 /\ v_attempts[3] \in {"inner_lock", "outer_lock"})
           => v_pc = "returned" /\ ~v_return.ok
    /\ \A t \in 1..Len(v_attempts) :
           v_attempts[t] \notin {"inner_lock", "outer_lock"}
               => /\ t = Len(v_attempts)
                  /\ v_pc = "returned"
                  /\ v_return.ok = (v_attempts[t] = "pages")

CsvHoldsAll == g_csv = [exists |-> TRUE, rows |-> g_registros]
TempHoldsAll == g_temp = [exists |-> TRUE, rows |-> g_registros]

\* C11: for a non-empty list path_csv is written at most 3 times; a third
\* attempt that fails with PermissionError is followed by the write of the
\* same records to the fallback file; the call returns normally only if all
\* the records were written to path_csv or to the fallback file, and raises
\* otherwise.
C11_RetryThenFallback ==
    /\ Len(g_attempts) <= 3
    /\ g_pc = "loop" => Len(g_attempts) < 3
    /\ (g_pc = "done" /\ g_arquivos # {})
           => /\ g_result \in {"returned", "raised"}
              /\ g_result = "returned"
                     => \/ CsvHoldsAll /\ g_attempts[Len(g_attempts)] = "ok"
                        \/ TempHoldsAll /\ Len(g_attempts) = 3 /\ g_attempts[3] = "perm"
              /\ registros_novos(g_arquivos) \subseteq g_registros \/ g_attempts = <<>>
              /\ (Len(g_attempts) = 3 /\ g_attempts[3] = "perm")
                     => (g_result = "returned" <=> TempHoldsAll)
              /\ g_temp.exists => (Len(g_attempts) = 3 /\ g_attempts[3] = "perm")

\* C11 witness: three PermissionErrors, the records are in the fallback file
C11_Witness ==
    /\ g_pc = "done"
    /\ g_attempts = <<"perm", "perm", "perm">>
    /\ g_result = "returned"
    /\ TempHoldsAll
    /\ g_registros # {}
    /\ ~CsvHoldsAll

(***************************************************************************)
(* Properties of the ledger written by parallel projects (SpecPar).        *)
(***************************************************************************)
\* C12: the ledger holds the header exactly once, as its first line, and
\* every other line is a data row, after any interleaving of the
\* append_ctrl_csv calls of projects running in parallel threads.
C12_HeaderExactlyOnce ==
    (par_ledger.exists /\ \A t \in ParProjects : par_pc[t] = "idle")
        => /\ Len(par_ledger.lines) > 0
           /\ par_ledger.lines[1] = HeaderLine
           /\ \A i \in 2..Len(par_ledger.lines) :
                 /\ par_ledger.lines[i] # HeaderLine
                 /\ par_ledger.lines[i].projeto \in ParProjects

(***************************************************************************)
(* Properties of ExtractorFactory (SpecFactory, SpecWorkers).              *)
(***************************************************************************)

\* C13: get_extractor is a singleton per cache key: between two clear_cache
\* calls at most one instance is created for a key and every call with that
\* key returns that instance, also when worker threads call concurrently.
C13_OneInstancePerKey ==
    \A k \in CacheKeys :
        /\ Cardinality(f_made[k]) <= 1
        /\ Cardinality(f_handed[k]) <= 1

CreateStep == f_last' # f_last /\ f_last'.op = "create"

SaidSuitable ==
    {t \in Registered(f_last.extractors) : f_last.outcome[t] = "suitable"}

\* the first of a set of types in registration order
FirstRegistered(types) ==
    LET i == CHOOSE i \in 1..Len(f_last.extractors) :
                 /\ f_last.extractors[i] \in types
                 /\ \A j \in 1..(i - 1) : f_last.extractors[j] \notin types
    IN f_last.extractors[i]

Returned(extractor_type) ==
    f_last.kind = "instance" /\ f_last.inst.class = ClassOf(extractor_type)

OnePerFile(res, first, last) ==
    /\ Len(res) = last - first + 1
    /\ \A k \in 1..Len(res) :
          /\ res[k].file_path = first + k - 1
          /\ a_out[res[k].file_path] \in {"error", "escaped"} => ~res[k].success
          /\ res[k].success <=> a_out[res[k].file_path] = "ok"

LastOfBatch == IF a_start + a_batch_size < a_files THEN a_start + a_batch_size ELSE a_files

\* C16: _process_batch returns one result per file of the batch, in input
\* order; an exception while a file is processed becomes a failed result and
\* never propagates; an exception of file_processed_callback does not stop
\* the counting and the return of the other results.
C16_OneResultPerFileInOrder ==
    /\ a_pc = "stats" => OnePerFile(a_batch, a_start + 1, LastOfBatch)
    /\ a_pc \in {"next", "batch"} =>
          /\ OnePerFile(a_results, 1, a_start)
          /\ a_stats.processed_files = a_start
    /\ a_pc = "raised" => (a_batch = <<>> /\ a_counted = 0)

\* C16 witness: a batch of two whose threads finished in reverse order, one
\* with an exception, and whose callback raised, has been returned
C16_Witness ==
    /\ a_pc = "next"
    /\ a_batch_size = 2
    /\ a_done_order = <<2, 1>>
    /\ a_out[1] = "error"
    /\ a_cb_raised > 0
    /\ Len(a_results) = 2

\* C17: successful_extractions + failed_extractions = processed_files <=
\* total_files throughout process_files, and at its return processed_files =
\* total_files = number of input files = number of results.
C17_CountersAddUp ==
    /\ a_stats.successful_extractions + a_stats.failed_extractions = a_stats.processed_files
    /\ a_stats.processed_files <= a_stats.total_files
    /\ a_pc = "returned" =>
          /\ a_stats.processed_files = a_stats.total_files
          /\ a_stats.total_files = a_files
          /\ Len(a_results) = a_files

\* C17 witness: process_files returned three results, successes and failures
C17_Witness ==
    /\ a_pc = "returned"
    /\ Len(a_results) = 3
    /\ a_stats.successful_extractions > 0
    /\ a_stats.failed_extractions > 0

BatchOf(f) == (f - 1) \div a_batch_size

\* C18: the files are processed in consecutive batches of at most
\* batch_size; a batch starts only when every file of the batch before it is
\* finished; never more than max_workers files are being extracted.
C18_BatchesInTurnWorkersBounded ==
    /\ Cardinality({f \in Files : a_task[f] = "running"}) <= a_max_workers
    /\ Cardinality({f \in Files : a_task[f] \in {"queued", "running"}}) <= a_batch_size
    /\ \A f \in Files : a_task[f] # "pending" => f <= a_files
    /\ \A f, g \in Files :
          (a_task[f] # "pending" /\ BatchOf(g) < BatchOf(f)) => a_task[g] = "done"
    /\ \A f, g \in Files :
          (a_task[f] \in {"queued", "running"} /\ a_task[g] \in {"queued", "running"})
              => BatchOf(f) = BatchOf(g)

\* C18 witness: in the second batch a file waits while max_workers files run
C18_Witness ==
    /\ a_pc = "batch"
    /\ a_start > 0
    /\ a_batch_size = 2
    /\ Cardinality({f \in Files : a_task[f] = "running"}) = a_max_workers
    /\ \E f \in Files : a_task[f] = "queued"

(***************************************************************************)
(* More properties of HybridExtractor (SpecHybrid).                        *)
(***************************************************************************)
\* C19: the result of extract_text(p) describes p: its file_path is p, also
\* when the instance served other files before and when neither the direct
\* nor the OCR extraction succeeds.
C19_ResultDescribesItsFile ==
    (h_path \in HybridPaths /\ h_result # NoResult) => h_result.file_path = h_path

(***************************************************************************)
(* More properties of the ledger (Spec).                                   *)
(***************************************************************************)
\* the state right after process_project recorded the end of an extraction
JustRecorded == pc = "pdf" /\ cur_pdf # "" /\ outcome # "none" /\ appendLog # <<>>

\* C20: once process_project has finished a PDF, carrega_ctrl_csv gives for
\* its key the status of the extraction just made, over any sequence of runs
\* in which the extraction of the file succeeds and fails in turn.
C20_ReloadGivesLatestStatus ==
    JustRecorded =>
        carrega_ctrl_csv(ledger)[<<cur_project, cur_pdf, cur_hash>>].status
            = TerminalStatus(outcome)

(***************************************************************************)
(* Properties of the ledger under any sequence of calls (SpecCalls).       *)
(***************************************************************************)
CallRows == DictReader(l_ledger)

\* C21: the ledger never holds two rows with the same (projeto, arquivo_pdf,
\* hash_pdf, status, output_path), and a second append_ctrl_csv call with
\* the arguments of the first leaves the ledger as the first left it.
C21_NoDuplicateRecords ==
    /\ \A i, j \in 1..Len(CallRows) :
          RecordKey(CallRows[i]) = RecordKey(CallRows[j]) => i = j
    /\ l_ledger.exists => l_ledger.lines[1] = HeaderLine
    /\ l_op = "append" =>
          /\ append_ctrl_csv(l_ledger, l_last[1], l_last[2], l_last[3], l_last[4],
                             l_last[5], Now) = l_ledger
          /\ \E i \in 1..Len(CallRows) : RecordKey(CallRows[i]) = l_last

\* C21 witness: append_ctrl_csv was called with a record the ledger held
\* and wrote nothing
C21_Witness ==
    /\ l_op = "append"
    /\ ~l_wrote
    /\ Len(CallRows) >= 2
    /\ \E i \in 1..Len(CallRows) : CallRows[i].output_path = ArchivedJson("a.pdf")


\* the extraction call came back through its exception handler
HandlerRan == outcome = "raised" \/ txt_file = HandlerTxt

\* C22: extract_text_openai_vision_async returns True, and process_project
\* therefore records "success" for the PDF, only if at least one page of the
\* PDF came back from the API without the error marker.
C22_SuccessNeedsAGoodPage ==
    (pc = "record" /\ TerminalStatus(outcome) = "success") =>
        \E i \in DOMAIN page_task : page_task[i] \in Replies \ {"erro"}

\* C23: when an exception is raised inside extract_text_openai_vision_async
\* after the API-key checks, the handler ends every active logger phase,
\* overwrites txt_path with the error message and returns False; no exception
\* leaves the function.
C23_HandlerReturnsFalse ==
    (pc = "record" /\ HandlerRan) =>
        /\ outcome = "false"
        /\ txt_file = HandlerTxt
        /\ phase_times = <<>>

=============================================================================
